---- MODULE Spec2Model ----
(***************************************************************************)
(* Model of usb_watchdog.py: the reconnect loop of main(), the acquisition *)
(* steps of usbinit(), DrainUSB(), the SendAndReceive/SendAndCompare       *)
(* exchange, usbcleanup() and the top-level KeyboardInterrupt path through *)
(* FatalError().  One action per blocking library call of the program.     *)
(***************************************************************************)
EXTENDS Integers, Sequences, FiniteSets, TLC

\* Bounds of the model (not program constants).
MaxHandles == 3     \* device objects usb.core.find may hand out in one run
MaxCount == 3       \* counters of packets, messages and attempts stop counting here

\* Program constants.
DrainReads == 256   \* range(0,256) in DrainUSB

None == 0
STARTUP == "STARTUP"
DISCONNECTED == "DISCONNECTED"
CONNECTED == "CONNECTED"
State == {STARTUP, DISCONNECTED, CONNECTED}

ping == <<30, 0>>
restart == <<255, 85>>

\* Byte sequences a device may answer with: nothing, the echo of either
\* packet, one byte changed, the packet as a strict prefix.
Replies == {<<>>, ping, restart, <<30, 1>>, <<30, 0, 0>>, <<255, 85, 0>>,
            [k \in 1..17 |-> 0]}

\* usb.util.ENDPOINT_IN, the direction bit of bEndpointAddress.
ENDPOINT_IN == 128

Errnos == {"EACCES", "EIO"}

VARIABLES
  restartFlag,    \* args.restart
  pc,             \* position of the single thread of control
  laststatus,     \* main: laststatus
  dev,            \* the global dev (None or a device object)
  ep_out, ep_in,  \* main: endpoints returned by the last successful usbinit
  ldev,           \* usbinit: its local dev
  lep_out, lep_in,\* usbinit: its local ep_out / ep_in
  i,              \* DrainUSB: loop counter
  exc,            \* the exception caught by main's except clauses
  sent,           \* SendAndReceive: dout of the exchange in progress
  matched,        \* value returned by SendAndCompare in this exchange ("none" before)
  data_read,      \* SendAndReceive: what ep_in.read returned in this exchange
  written,        \* packets accepted by ep_out.write, per packet kind
  waitingLogged,  \* number of 'Waiting for watchdog module' messages
  exitStatus,     \* process exit status, -1 while running
  exitCause,      \* why the process ended
  nextHandle,     \* next device object usb.core.find creates
  open,           \* device objects found and not yet reset by usbcleanup
  lastHandle,     \* device object found by the most recent usbinit (or None)
  attempts,       \* calls of usbinit so far
  firstResult,    \* outcome of the first usbinit call
  everFound,      \* usb.core.find has returned a device at least once
  post,           \* events since the last exception reached main's handlers
  recording,      \* post is being extended
  origin,         \* where that exception was raised: usbinit or the session
  pendingCleanup, \* the try block was left and usbcleanup has not finished
  interrupted,    \* a KeyboardInterrupt was delivered
  disposeResult,  \* outcome of the last dispose_resources call in usbcleanup
  resetResult,    \* outcome of the last dev.reset() call in usbcleanup
  fatalInterrupted, \* a further KeyboardInterrupt arrived inside FatalError
  lastOp,         \* last operation on the endpoints of the current connection
  good            \* the device is present, accessible, well-formed and echoing

vars == <<restartFlag, pc, laststatus, dev, ep_out, ep_in, ldev, lep_out,
          lep_in, i, exc, sent, matched, data_read, written, waitingLogged, exitStatus,
          exitCause, nextHandle, open, lastHandle, attempts, firstResult,
          everFound, post, recording, origin, pendingCleanup, interrupted,
          disposeResult,
                 resetResult, fatalInterrupted, lastOp, good>>

\* The variables of the program and of its history, without the device's.
progVars == <<restartFlag, pc, laststatus, dev, ep_out, ep_in, ldev, lep_out,
              lep_in, i, exc, sent, matched, data_read, written, waitingLogged,
              exitStatus, exitCause, nextHandle, open, lastHandle, attempts,
              firstResult, everFound, post, recording, origin, pendingCleanup,
              interrupted, disposeResult, resetResult, fatalInterrupted,
              lastOp>>

\* Variable groups used in UNCHANGED clauses.
mainVars == <<restartFlag, laststatus, dev, ep_out, ep_in>>
initVars == <<ldev, lep_out, lep_in, i>>
xchgVars == <<sent, matched, data_read, written>>
exitVars == <<exitStatus, exitCause, interrupted>>
findVars == <<nextHandle, lastHandle, attempts, everFound>>

Inc(n) == IF n < MaxCount THEN n + 1 ELSE n

Rec(e) == IF recording THEN Append(post, e) ELSE post

IsPrefix(s, t) == Len(s) <= Len(t) /\ SubSeq(t, 1, Len(s)) = s

NoExc == [type |-> "none", errno |-> "none"]

-----------------------------------------------------------------------------
\* dout.hex(): two lowercase hex digits per byte (digits kept as 0..15).
BytesHex(b) ==
  [k \in 1..(2 * Len(b)) |->
     IF k % 2 = 1 THEN b[(k + 1) \div 2] \div 16 ELSE b[k \div 2] % 16]

\* ''.join('%02x' % i for i in data_read): zero-padded, two digits per byte.
JoinHex(d) ==
  [k \in 1..(2 * Len(d)) |->
     IF k % 2 = 1 THEN d[(k + 1) \div 2] \div 16 ELSE d[k \div 2] % 16]

\* bEndpointAddress of the IN endpoint of device object h: the direction bit
\* plus an endpoint number 1..15.
bEndpointAddress(h) == ENDPOINT_IN + ((h - 1) % 15) + 1

\* SendAndReceive: ep_in.read(ep_in.bEndpointAddress, 16).  Endpoint.read
\* takes (size_or_buffer, timeout): the size requested is the address.
ReadSize(ep) == bEndpointAddress(ep)

\* What a read of at most n bytes returns of the data d the device sends.
Take(d, n) == SubSeq(d, 1, IF Len(d) < n THEN Len(d) ELSE n)

\* Faulty variant: only the first len(dout) bytes of the reply are compared.
SendAndCompare_Mut(dout, din) ==
  /\ Len(din) >= Len(dout)
  /\ BytesHex(dout) = SubSeq(JoinHex(din), 1, 2 * Len(dout))

\* SendAndCompare: return dout_hex == din_hex.
SendAndCompare(dout, din) == BytesHex(dout) = JoinHex(din)

\* Faulty variant: a mismatch is raised as an error.
CompareRaises_Mut(dout_hex, din_hex) == dout_hex # din_hex

\* SendAndCompare only warns on a mismatch; it raises nothing itself.
CompareRaises(dout_hex, din_hex) == FALSE

\* Faulty variant: dev.reset() sits inside the try block of the dispose call
\* and is skipped when that call failed.
ResetAttempted_Mut(d, dr) == d # None /\ dr # "failed"

\* usbcleanup: 'if dev != None: dev.reset()' in a try block of its own.
ResetAttempted(d, dr) == d # None

\* Faulty variant: a bare except in main swallows KeyboardInterrupt and the
\* loop carries on with cleanup and retry.
InterruptTarget_Mut == "cleanup_dispose"

\* Where a KeyboardInterrupt raised under main ends up: the handler of
\* __main__, which calls FatalError.
InterruptTarget == "fatal"

\* Faulty variant: the loop sends the next PING without sleeping.
AfterPing_Mut == "session"

\* main: time.sleep(args.interval) follows SendAndCompare(ep_out, ep_in, ping).
AfterPing == "sleep"

\* assert ep_out is not None / assert ep_in is not None
AssertHolds(ep) == ep # None

\* 'Drained ' + len(tmp) + ' bytes ...' adds an int to a str: TypeError.
DrainLogRaises == TRUE

\* Faulty variant: a successful acquisition leaves laststatus at STARTUP.
StatusAfterAcquire_Mut == STARTUP

\* main: laststatus=State.CONNECTED after usbinit returned.
StatusAfterAcquire == CONNECTED

\* Faulty variant: a failed iteration starts over from STARTUP.
StatusAfterFailure_Mut == STARTUP

\* main: laststatus=State.DISCONNECTED after usbcleanup.
StatusAfterFailure == DISCONNECTED

\* Faulty variant: the message is logged on every retry.
ShouldLogWaiting_Mut(s) == s # CONNECTED

\* main: if laststatus == State.STARTUP: logging.info('Waiting ...')
ShouldLogWaiting(s) == s = STARTUP

\* Faulty variant: the communication error is never logged.
ShouldLogError_Mut(s) == FALSE

\* Faulty variant: the communication error is logged for every USBError.
ShouldLogError_Always(s) == TRUE

\* main: if laststatus == State.CONNECTED: logging.error('USB communication ...')
ShouldLogError(s) == s = CONNECTED

\* Faulty variant: the permission message is never logged.
ShouldLogPerm_Mut(e) == FALSE

\* main: if evalue.errno == errno.EACCES: logging.error('Insufficient ...')
ShouldLogPerm(e) == e.type = "USBError" /\ e.errno = "EACCES"

\* Faulty variant: the two packets are swapped.
Packet_Mut(r) == IF r THEN ping ELSE restart

\* The packet the session sends: restart when args.restart, else ping.
Packet(r) == IF r THEN restart ELSE ping

\* Which of the two packets a byte sequence handed to ep_out.write is.
PacketName(p) == IF p = restart THEN "restart" ELSE "ping"

-----------------------------------------------------------------------------
Init ==
  /\ restartFlag \in BOOLEAN
  /\ pc = "usbinit"
  /\ laststatus = STARTUP
  /\ dev = None
  /\ ep_out = None /\ ep_in = None
  /\ ldev = None /\ lep_out = None /\ lep_in = None
  /\ i = 0
  /\ exc = NoExc
  /\ sent = <<>>
  /\ matched = "none"
  /\ data_read = <<>>
  /\ written = [ping |-> 0, restart |-> 0]
  /\ waitingLogged = 0
  /\ exitStatus = -1
  /\ exitCause = "none"
  /\ nextHandle = 1
  /\ open = {}
  /\ lastHandle = None
  /\ attempts = 0
  /\ firstResult = "pending"
  /\ everFound = FALSE
  /\ post = <<>>
  /\ recording = FALSE
  /\ origin = "none"
  /\ pendingCleanup = FALSE
  /\ interrupted = FALSE
  /\ disposeResult = "none"
  /\ resetResult = "none"
  /\ fatalInterrupted = FALSE
  /\ lastOp = "none"
  /\ good \in BOOLEAN

\* An exception of a type main catches (ValueError, usb.USBError) leaves the
\* try block and reaches the matching except clause.
Raise(type, errno, from) ==
  /\ exc' = [type |-> type, errno |-> errno]
  /\ pc' = "except"
  /\ post' = <<>>
  /\ recording' = TRUE
  /\ origin' = from
  /\ pendingCleanup' = TRUE
  /\ firstResult' = IF firstResult = "pending" THEN "failed" ELSE firstResult

\* An exception no except clause of main or of the top level matches
\* (AssertionError, TypeError): the interpreter prints a traceback and the
\* process ends with status 1; line 286 is not reached.
Uncaught ==
  /\ pc' = "exited"
  /\ exitStatus' = 1
  /\ exitCause' = "uncaught"
  /\ pendingCleanup' = TRUE
  /\ firstResult' = IF firstResult = "pending" THEN "failed" ELSE firstResult
  /\ UNCHANGED <<exc, post, recording, origin, interrupted>>

-----------------------------------------------------------------------------
\* usbinit, up to usb.core.find and 'if dev is None'.  find raises
\* NoBackendError (a ValueError) without a libusb backend, returns None when
\* no device matches, and otherwise returns a new device object, held in
\* usbinit's local dev only.
UsbInitFind ==
  /\ pc = "usbinit"
  /\ attempts' = Inc(attempts)
  /\ lep_out' = None /\ lep_in' = None /\ i' = 0
  /\ \/ /\ ~good
        /\ \E t \in {"ValueError", "USBError"} : Raise(t, "none", "acquire")
        /\ ldev' = None
        /\ lastHandle' = None
        /\ UNCHANGED <<nextHandle, open, everFound>>
     \/ /\ nextHandle <= MaxHandles
        /\ ldev' = nextHandle
        /\ lastHandle' = nextHandle
        /\ nextHandle' = nextHandle + 1
        /\ open' = open \cup {nextHandle}
        /\ everFound' = TRUE
        /\ pc' = "detach"
        /\ post' = Rec("usbinit")
        /\ recording' = FALSE
        /\ UNCHANGED <<exc, origin, pendingCleanup, firstResult>>
  /\ UNCHANGED <<mainVars, xchgVars, exitVars, waitingLogged, disposeResult,
                 resetResult, fatalInterrupted, lastOp, good>>

\* usbinit: is_kernel_driver_active / detach_kernel_driver.  A
\* NotImplementedError is passed over; a USBError (EACCES when the device
\* node is not accessible) propagates to main.
UsbInitDetach ==
  /\ pc = "detach"
  /\ \/ /\ pc' = "setconfig"
        /\ UNCHANGED <<exc, post, recording, origin, pendingCleanup, firstResult>>
     \/ /\ ~good
        /\ \E e \in Errnos : Raise("USBError", e, "acquire")
  /\ UNCHANGED <<mainVars, initVars, xchgVars, exitVars, findVars, open,
                 waitingLogged, disposeResult,
                 resetResult, fatalInterrupted, lastOp, good>>

\* usbinit: set_configuration, get_active_configuration, cfg[(0,0)].
UsbInitSetConfig ==
  /\ pc = "setconfig"
  /\ \/ /\ pc' = "endpoints"
        /\ UNCHANGED <<exc, post, recording, origin, pendingCleanup, firstResult>>
     \/ /\ ~good
        /\ \E e \in Errnos : Raise("USBError", e, "acquire")
  /\ UNCHANGED <<mainVars, initVars, xchgVars, exitVars, findVars, open,
                 waitingLogged, disposeResult,
                 resetResult, fatalInterrupted, lastOp, good>>

\* usbinit: the two find_descriptor calls and the two asserts.  The first
\* interface has an OUT endpoint or not, an IN endpoint or not.
UsbInitEndpoints ==
  /\ pc = "endpoints"
  /\ \E hasOut \in BOOLEAN, hasIn \in BOOLEAN :
       /\ good => (hasOut /\ hasIn)
       /\ lep_out' = IF hasOut THEN ldev ELSE None
       /\ lep_in' = IF hasIn THEN ldev ELSE None
       /\ IF AssertHolds(lep_out') /\ AssertHolds(lep_in')
            THEN /\ pc' = "drain"
                 /\ UNCHANGED <<exc, post, recording, origin, pendingCleanup,
                                firstResult, exitStatus, exitCause, interrupted>>
            ELSE Uncaught
  /\ UNCHANGED <<mainVars, ldev, i, xchgVars, findVars, open, waitingLogged,
                 disposeResult,
                 resetResult, fatalInterrupted, lastOp, good>>

\* usbinit returns to main: dev, ep_out, ep_in = usbinit(...) binds the
\* global dev, and laststatus is set.
UsbInitReturn ==
  /\ dev' = ldev /\ ep_out' = lep_out /\ ep_in' = lep_in
  /\ laststatus' = StatusAfterAcquire
  /\ pc' = "session"
  /\ lastOp' = "drain"
  /\ firstResult' = IF firstResult = "pending" THEN "ok" ELSE firstResult
  /\ UNCHANGED <<i, restartFlag, exc, post, recording, origin,
                 pendingCleanup, exitVars>>

\* DrainUSB: one ep_in.read(1024,10) of the loop.  A read that times out or
\* fails ends the drain (USBError is caught) and usbinit returns.  A read
\* that returns data (whatever the device had queued before the program
\* attached) reaches the logging.debug line.
UsbInitDrain ==
  /\ pc = "drain"
  /\ \/ /\ i < DrainReads
        /\ \/ /\ IF DrainLogRaises
                   THEN Uncaught /\ UNCHANGED <<i, mainVars, lastOp>>
                   ELSE /\ i' = i + 1
                        /\ UNCHANGED <<pc, mainVars, exc, post, recording,
                                       origin, pendingCleanup, firstResult,
                                       exitVars, lastOp>>
           \/ UsbInitReturn
     \/ /\ i >= DrainReads
        /\ UsbInitReturn
  /\ UNCHANGED <<ldev, lep_out, lep_in, xchgVars, findVars, open,
                 waitingLogged, disposeResult,
                 resetResult, fatalInterrupted, good>>

-----------------------------------------------------------------------------
\* Top of the inner loop and SendAndReceive's ep_out.write(dout): RESTART in
\* restart mode, PING otherwise.
SessionWrite ==
  /\ pc = "session"
  /\ sent' = Packet(restartFlag)
  /\ matched' = "none"
  /\ data_read' = <<>>
  /\ \/ /\ written' = [written EXCEPT ![PacketName(sent')] = Inc(@)]
        /\ pc' = "read"
        /\ lastOp' = "write"
        /\ post' = Rec("write")
        /\ UNCHANGED <<exc, recording, origin, pendingCleanup, firstResult>>
     \/ /\ ~good
        /\ \E e \in Errnos : Raise("USBError", e, "session")
        /\ lastOp' = "none"
        /\ UNCHANGED written
  /\ UNCHANGED <<mainVars, initVars, exitVars, findVars, open, waitingLogged,
                 disposeResult,
                 resetResult, fatalInterrupted, good>>

\* SendAndReceive's ep_in.read and the comparison of SendAndCompare; then, in
\* restart mode, sys.exit(): SystemExit is matched by no except clause, so
\* the process ends with status 0 from inside the try block.  In ping mode
\* the value returned by SendAndCompare is not used.
SessionRead ==
  /\ pc = "read"
  /\ \/ \E data \in Replies :
          /\ good => data = sent
          /\ data_read' = Take(data, ReadSize(ep_in))
          /\ matched' = IF SendAndCompare(sent, data_read') THEN "True" ELSE "False"
          /\ IF CompareRaises(BytesHex(sent), JoinHex(data_read'))
               THEN /\ Raise("USBError", "EIO", "session")
                    /\ lastOp' = "none"
                    /\ UNCHANGED exitVars
               ELSE IF restartFlag
                 THEN /\ pc' = "exited"
                      /\ exitStatus' = 0
                      /\ exitCause' = "restart_done"
                      /\ pendingCleanup' = TRUE
                      /\ lastOp' = "read"
                      /\ post' = Rec("read")
                      /\ UNCHANGED <<exc, recording, origin, firstResult, interrupted>>
                 ELSE /\ pc' = AfterPing
                      /\ lastOp' = "read"
                      /\ post' = Rec("read")
                      /\ UNCHANGED <<exc, recording, origin, pendingCleanup,
                                     firstResult, exitVars>>
     \/ /\ ~good
        /\ \E e \in Errnos : Raise("USBError", e, "session")
        /\ lastOp' = "none"
        /\ UNCHANGED <<matched, data_read, exitVars>>
  /\ UNCHANGED <<mainVars, initVars, sent, written, findVars, open,
                 waitingLogged, disposeResult,
                 resetResult, fatalInterrupted, good>>

\* time.sleep(args.interval)
IntervalSleep ==
  /\ pc = "sleep"
  /\ pc' = "session"
  /\ lastOp' = "sleep"
  /\ post' = Rec("sleep")
  /\ UNCHANGED <<mainVars, initVars, xchgVars, exitVars, findVars, open, exc,
                 waitingLogged, recording, origin, pendingCleanup, firstResult,
                 disposeResult,
                 resetResult, fatalInterrupted, good>>

-----------------------------------------------------------------------------
\* The except clauses of main: ValueError logs at debug level only; USBError
\* logs the permission message on EACCES and the communication error when
\* laststatus is CONNECTED.
Except ==
  /\ pc = "except"
  /\ post' = post
       \o (IF ShouldLogPerm(exc) THEN <<"log_perm">> ELSE <<>>)
       \o (IF exc.type = "USBError" /\ ShouldLogError(laststatus)
             THEN <<"log_error">> ELSE <<>>)
  /\ pc' = "cleanup_dispose"
  /\ UNCHANGED <<mainVars, initVars, xchgVars, exitVars, findVars, open, exc,
                 waitingLogged, recording, origin, pendingCleanup, firstResult,
                 disposeResult,
                 resetResult, fatalInterrupted, lastOp, good>>

\* usbcleanup, first try block: dispose_resources(dev) when dev is not None;
\* any error but KeyboardInterrupt is swallowed.
Dispose ==
  /\ IF dev # None
       THEN /\ disposeResult' \in {"ok", "failed"}
            /\ post' = Rec("dispose")
       ELSE /\ disposeResult' = "skipped"
            /\ post' = post
  /\ UNCHANGED <<mainVars, initVars, xchgVars, exitVars, findVars, open, exc,
                 waitingLogged, recording, origin, pendingCleanup, firstResult,
                 resetResult, fatalInterrupted, lastOp, good>>

\* usbcleanup: time.sleep(0.1)
Wait ==
  /\ post' = Rec("wait")
  /\ UNCHANGED <<mainVars, initVars, xchgVars, exitVars, findVars, open, exc,
                 waitingLogged, recording, origin, pendingCleanup, firstResult,
                 disposeResult,
                 resetResult, fatalInterrupted, lastOp, good>>

\* usbcleanup, second try block: dev.reset() when dev is not None, errors
\* swallowed; the global dev has then been through dispose and reset.
Reset ==
  /\ IF ResetAttempted(dev, disposeResult)
       THEN /\ resetResult' \in {"ok", "failed"}
            /\ open' = open \ {dev}
            /\ post' = Rec("reset")
       ELSE /\ resetResult' = "skipped"
            /\ open' = open
            /\ post' = post
  /\ pendingCleanup' = FALSE

\* usbcleanup() called from main's loop.
CleanupDispose ==
  /\ pc = "cleanup_dispose"
  /\ pc' = "cleanup_wait"
  /\ Dispose

CleanupWait ==
  /\ pc = "cleanup_wait"
  /\ pc' = "cleanup_reset"
  /\ Wait

CleanupReset ==
  /\ pc = "cleanup_reset"
  /\ Reset
  /\ pc' = "after_cleanup"
  /\ UNCHANGED <<mainVars, initVars, xchgVars, exitVars, findVars, exc,
                 waitingLogged, recording, origin, firstResult, disposeResult,
                 fatalInterrupted, lastOp, good>>

\* main after usbcleanup: the 'Waiting' message when laststatus is STARTUP,
\* then laststatus=State.DISCONNECTED.
AfterCleanup ==
  /\ pc = "after_cleanup"
  /\ IF ShouldLogWaiting(laststatus)
       THEN /\ waitingLogged' = Inc(waitingLogged)
            /\ post' = Rec("log_waiting") \o (IF recording THEN <<DISCONNECTED>> ELSE <<>>)
       ELSE /\ waitingLogged' = waitingLogged
            /\ post' = Rec(DISCONNECTED)
  /\ laststatus' = StatusAfterFailure
  /\ pc' = "delay"
  /\ UNCHANGED <<restartFlag, dev, ep_out, ep_in, initVars, xchgVars, exitVars,
                 findVars, open, exc, recording, origin, pendingCleanup,
                 firstResult, disposeResult,
                 resetResult, fatalInterrupted, lastOp, good>>

\* time.sleep(2), then the outer loop starts over.
RetryDelay ==
  /\ pc = "delay"
  /\ pc' = "usbinit"
  /\ post' = Rec("delay")
  /\ UNCHANGED <<mainVars, initVars, xchgVars, exitVars, findVars, open, exc,
                 waitingLogged, recording, origin, pendingCleanup, firstResult,
                 disposeResult,
                 resetResult, fatalInterrupted, lastOp, good>>

-----------------------------------------------------------------------------
MainPcs == {"usbinit", "detach", "setconfig", "endpoints", "drain", "session",
            "read", "sleep", "except", "cleanup_dispose", "cleanup_wait",
            "cleanup_reset", "after_cleanup", "delay"}

FatalPcs == {"fatal", "fatal_dispose", "fatal_wait", "fatal_reset"}

\* Ctrl+C while main runs: KeyboardInterrupt is matched by no except clause
\* of main (usbcleanup re-raises it) and reaches the handler of __main__,
\* which calls FatalError.
Interrupt ==
  /\ pc \in MainPcs
  /\ pc' = InterruptTarget
  /\ interrupted' = TRUE
  /\ pendingCleanup' = TRUE
  /\ UNCHANGED <<mainVars, initVars, xchgVars, exitStatus, exitCause, findVars,
                 open, exc, waitingLogged, post, recording, origin, firstResult,
                 disposeResult,
                 resetResult, fatalInterrupted, lastOp, good>>

\* FatalError: the message is printed and logged.
FatalMessage ==
  /\ pc = "fatal"
  /\ pc' = "fatal_dispose"
  /\ post' = Rec("fatal_message")
  /\ UNCHANGED <<mainVars, initVars, xchgVars, exitVars, findVars, open, exc,
                 waitingLogged, recording, origin, pendingCleanup, firstResult,
                 disposeResult,
                 resetResult, fatalInterrupted, lastOp, good>>

\* FatalError: usbcleanup(), then sys.exit(1).
FatalDispose ==
  /\ pc = "fatal_dispose"
  /\ pc' = "fatal_wait"
  /\ Dispose

FatalWait ==
  /\ pc = "fatal_wait"
  /\ pc' = "fatal_reset"
  /\ Wait

FatalReset ==
  /\ pc = "fatal_reset"
  /\ Reset
  /\ pc' = "exited"
  /\ exitStatus' = 1
  /\ exitCause' = "interrupt"
  /\ UNCHANGED <<mainVars, initVars, xchgVars, interrupted, findVars, exc,
                 waitingLogged, recording, origin, firstResult, disposeResult,
                 fatalInterrupted, lastOp, good>>

\* A second Ctrl+C inside FatalError's try block is swallowed by its bare
\* except; sys.exit(1) follows at once.
FatalInterrupt ==
  /\ pc \in FatalPcs
  /\ pc' = "exited"
  /\ exitStatus' = 1
  /\ exitCause' = "interrupt"
  /\ fatalInterrupted' = TRUE
  /\ UNCHANGED <<mainVars, initVars, xchgVars, interrupted, findVars, open, exc,
                 waitingLogged, post, recording, origin, pendingCleanup,
                 firstResult, disposeResult, resetResult, lastOp, good>>

\* The device is plugged, unplugged, made (in)accessible, starts or stops
\* answering; nextHandle bounds how often it can come back.
DeviceChange ==
  /\ pc # "exited"
  /\ good' = ~good
  /\ ~good => nextHandle <= MaxHandles
  /\ UNCHANGED progVars

Next ==
  \/ DeviceChange
  \/ UsbInitFind
  \/ UsbInitDetach
  \/ UsbInitSetConfig
  \/ UsbInitEndpoints
  \/ UsbInitDrain
  \/ SessionWrite
  \/ SessionRead
  \/ IntervalSleep
  \/ Except
  \/ CleanupDispose
  \/ CleanupWait
  \/ CleanupReset
  \/ AfterCleanup
  \/ RetryDelay
  \/ Interrupt
  \/ FatalMessage
  \/ FatalDispose
  \/ FatalWait
  \/ FatalReset
  \/ FatalInterrupt

Spec == Init /\ [][Next]_vars

\* The steps of the program itself (everything but the user's Ctrl+C and the
\* changes of the device).
Step ==
  \/ UsbInitFind \/ UsbInitDetach \/ UsbInitSetConfig \/ UsbInitEndpoints
  \/ UsbInitDrain \/ SessionWrite \/ SessionRead \/ IntervalSleep \/ Except
  \/ CleanupDispose \/ CleanupWait \/ CleanupReset \/ AfterCleanup
  \/ RetryDelay \/ FatalMessage \/ FatalDispose \/ FatalWait \/ FatalReset

\* The single thread keeps running: every library call and sleep of the
\* program returns or raises (USB calls have timeouts, sleeps are finite).
LiveSpec == Spec /\ WF_vars(Step)

TypeOK ==
  /\ restartFlag \in BOOLEAN
  /\ pc \in MainPcs \cup FatalPcs \cup {"exited"}
  /\ laststatus \in State
  /\ dev \in 0..MaxHandles /\ ldev \in 0..MaxHandles
  /\ written \in [{"ping", "restart"} -> 0..MaxCount]
  /\ waitingLogged \in 0..MaxCount
  /\ exitStatus \in {-1, 0, 1}
  /\ matched \in {"none", "True", "False"}
  /\ open \subseteq 1..MaxHandles
  /\ lastOp \in {"none", "drain", "write", "read", "sleep"}
  /\ good \in BOOLEAN

-----------------------------------------------------------------------------
\* C1: in ping mode the process never terminates on its own, whatever the
\* device does; the only way it reaches a terminated state is a user
\* interrupt.
C1_PingOnlyInterruptTerminates ==
  (~restartFlag /\ pc = "exited") => exitCause = "interrupt"

\* C2: in restart mode exactly one RESTART packet is written over the whole
\* execution (never a second one, also after a failed reply read), and the
\* process exits with status 0 once it has been sent.
C2_RestartExactlyOnce ==
  restartFlag =>
    /\ written.restart <= 1
    /\ exitCause = "restart_done" => (written.restart = 1 /\ exitStatus = 0)

\* C3: a reply that differs from the PING sent is a warning only: the step
\* in which SendAndCompare returns False leads to the interval sleep with
\* laststatus still CONNECTED and the same device and endpoints, no cleanup
\* and no acquisition; the sleep leads back to the top of the inner loop,
\* whose next step sends PING on the same endpoints.
C3_MismatchIsWarningOnly ==
  [][ /\ (pc = "read" /\ ~restartFlag /\ matched' = "False") =>
           /\ pc' = "sleep"
           /\ laststatus = CONNECTED
           /\ UNCHANGED <<laststatus, dev, ep_out, ep_in, open, attempts, exc>>
      /\ (pc = "sleep" /\ matched = "False" /\ pc' # "fatal") =>
           /\ pc' = "session"
           /\ UNCHANGED <<laststatus, dev, ep_out, ep_in, open, attempts, written>>
      /\ (pc = "session" /\ matched = "False" /\ pc' # "fatal") =>
           /\ sent' = ping
           /\ pc' \in {"read", "except"}
           /\ pc' = "read" => written'.ping >= written.ping
           /\ UNCHANGED <<laststatus, dev, ep_out, ep_in, open, attempts>>
    ]_progVars

\* C3 witness: after a mismatching reply and the interval sleep, the loop is
\* back at its top, still CONNECTED, about to send the next PING.
C3_Witness ==
  /\ ~restartFlag /\ pc = "session" /\ matched = "False"
  /\ laststatus = CONNECTED /\ ep_out = dev /\ dev # None

\* What follows a USBError raised by the session, in order.
ExpectedAfterSessionError(e) ==
  (IF e.errno = "EACCES" THEN <<"log_perm">> ELSE <<>>)
    \o <<"log_error", "dispose", "wait", "reset", DISCONNECTED, "delay", "usbinit">>

\* C4: after a USBError raised by the session while CONNECTED, and unless
\* the user interrupts, what happens is exactly, in this order: the error
\* message(s), dispose attempt, short wait, reset attempt (whatever dispose
\* did), laststatus DISCONNECTED, the retry delay, the next usbinit call.
C4_SessionErrorSequence ==
  (origin = "session" /\ ~interrupted) =>
    LET E == ExpectedAfterSessionError(exc) IN
      /\ IsPrefix(post, E)
      /\ pc = "usbinit" => Len(post) = Len(E) - 1
      /\ pc = "delay" => laststatus = DISCONNECTED
      /\ ~recording => post = E

\* C4 witness: the whole sequence has happened after a session error, with a
\* dispose that failed.
C4_Witness ==
  /\ origin = "session" /\ ~interrupted /\ ~recording
  /\ post = ExpectedAfterSessionError(exc)
  /\ disposeResult = "failed"

\* C5: every exit from the inner loop, by restart-mode completion or by an
\* exception of acquisition or exchange, is followed by usbcleanup before
\* the process terminates or the next acquisition attempt starts.
C5_CleanupAfterEveryExit ==
  (pc \in {"usbinit", "exited"} /\ ~interrupted) => ~pendingCleanup

\* C6: every device object obtained by an acquisition attempt has been
\* through usbcleanup before the next attempt begins, and usbcleanup acts on
\* the device object of the most recent attempt.
C6_HandleReleasedBeforeNextAttempt ==
  /\ pc = "usbinit" => open = {}
  /\ (pc \in {"cleanup_dispose", "cleanup_wait", "cleanup_reset"}
        /\ lastHandle # None) => dev = lastHandle

\* C7: once laststatus has left STARTUP no step sets it back to STARTUP.
C7_NeverBackToStartup ==
  [][laststatus # STARTUP => laststatus' # STARTUP]_vars

\* C7 witness: laststatus went CONNECTED and then DISCONNECTED, and the next
\* acquisition attempt is about to start.
C7_Witness ==
  laststatus = DISCONNECTED /\ dev # None /\ pc = "usbinit"

\* C8 (as stated): every change of laststatus is STARTUP->CONNECTED,
\* CONNECTED->DISCONNECTED or DISCONNECTED->CONNECTED.
C8_ThreeMoves ==
  [][laststatus' # laststatus =>
       <<laststatus, laststatus'>> \in
         {<<STARTUP, CONNECTED>>, <<CONNECTED, DISCONNECTED>>,
          <<DISCONNECTED, CONNECTED>>}]_vars

\* C8 (amended): every change of laststatus is one of four moves, the three
\* above or STARTUP->DISCONNECTED (first acquisition attempt failed).
C8_FourMoves ==
  [][laststatus' # laststatus =>
       <<laststatus, laststatus'>> \in
         {<<STARTUP, CONNECTED>>, <<STARTUP, DISCONNECTED>>,
          <<CONNECTED, DISCONNECTED>>, <<DISCONNECTED, CONNECTED>>}]_vars

\* C8 witness: DISCONNECTED without ever having been CONNECTED, then
\* CONNECTED: the fourth move and a reconnect have both happened.
C8_Witness ==
  laststatus = CONNECTED /\ waitingLogged = 1 /\ firstResult = "failed"

\* C9: the 'Waiting' message is logged at most once in any execution, not at
\* all when the first acquisition attempt succeeded, and exactly once, after
\* the first failed attempt, when find never returns a device.
C9_WaitingLoggedOnce ==
  /\ waitingLogged <= 1
  /\ firstResult = "ok" => waitingLogged = 0
  /\ (~everFound /\ laststatus = STARTUP) => waitingLogged = 0
  /\ (~everFound /\ laststatus = DISCONNECTED) => waitingLogged = 1

\* C9 witness: three acquisition attempts, none found a device, one message.
C9_Witness ==
  ~everFound /\ attempts >= 3 /\ waitingLogged = 1 /\ pc = "except"

\* C10: an acquisition attempt on a device without an IN or without an OUT
\* endpoint does not terminate the process (it is caught and retried).
C10_MalformedDescriptorRetried ==
  ~(pc = "exited" /\ exitCause = "uncaught"
      /\ (lep_out = None \/ lep_in = None))

\* C11: the drain step never raises: whatever the IN buffer holds, DrainUSB
\* makes at most 256 reads and returns normally to usbinit; the process
\* never ends inside the drain.
C11_DrainNeverRaises ==
  /\ i <= DrainReads
  /\ ~(pc = "exited" /\ exitCause = "uncaught"
         /\ lep_out # None /\ lep_in # None)

\* Number of 'USB communication error' messages among the recorded events.
ErrorsLogged == Cardinality({k \in 1..Len(post) : post[k] = "log_error"})

\* C19: in ping mode RESTART is never written and every packet handed to
\* ep_out.write is PING; in restart mode PING is never written and every
\* packet is RESTART.
C19_OnlyTheModesPacket ==
  /\ ~restartFlag => (written.restart = 0 /\ sent \in {<<>>, ping})
  /\ restartFlag => (written.ping = 0 /\ sent \in {<<>>, restart})

\* C19 witness: ping mode, PING written on a second connection after a
\* failure and a reconnect.
C19_Witness ==
  ~restartFlag /\ written.ping >= 2 /\ attempts >= 2 /\ pc = "read"

\* C20: the 'USB communication error' message is logged only for a USBError
\* raised by the session (laststatus CONNECTED), once; a failed acquisition
\* attempt does not log it.
C20_ErrorOnlyAfterConnected ==
  /\ ErrorsLogged <= 1
  /\ ErrorsLogged = 1 => (origin = "session" /\ exc.type = "USBError")
  /\ pc = "cleanup_dispose" => (ErrorsLogged = 1 <=> origin = "session")
  /\ origin = "acquire" => ErrorsLogged = 0

\* C20 witness: after a connection was lost, a later acquisition attempt
\* failed with a permission error and logged only the permission message.
C20_Witness ==
  /\ origin = "acquire" /\ dev # None /\ pc = "delay"
  /\ post = <<"log_perm", "dispose", "wait", "reset", DISCONNECTED>>

CleanupPcs == {"cleanup_dispose", "cleanup_wait", "cleanup_reset"}

\* C13: in the usbcleanup called from main's loop, dispose and reset are
\* attempted independently when dev is set (reset whatever dispose did),
\* their failures are swallowed and the loop goes on to the retry delay; a
\* user interrupt during cleanup leaves it for FatalError; with dev None
\* neither dispose nor reset is called.
C13_CleanupStepsIndependent ==
  [][ /\ (pc = "cleanup_dispose" /\ pc' # "fatal") =>
           /\ pc' = "cleanup_wait"
           /\ disposeResult' = "skipped" <=> dev = None
      /\ (pc = "cleanup_wait" /\ pc' # "fatal") => pc' = "cleanup_reset"
      /\ (pc = "cleanup_reset" /\ pc' # "fatal") =>
           /\ pc' = "after_cleanup"
           /\ resetResult' = "skipped" <=> dev = None
           /\ resetResult' \in {"ok", "failed", "skipped"}
      /\ (pc = "after_cleanup" /\ pc' # "fatal") => pc' = "delay"
      /\ (pc \in CleanupPcs /\ interrupted') => pc' = "fatal"
    ]_progVars

\* C13 witness: dispose failed, reset was attempted and failed too, and the
\* loop reached the retry delay.
C13_Witness ==
  pc = "delay" /\ disposeResult = "failed" /\ resetResult = "failed"

\* What follows a USBError e caught by main, in order: the permission
\* message only when e is EACCES, the communication error only after a
\* session, dispose and reset only with a device object in the global dev,
\* the 'Waiting' message only the first time.
HandlerSequence(e, from, hasDev, first) ==
  (IF e.errno = "EACCES" THEN <<"log_perm">> ELSE <<>>)
    \o (IF from = "session" THEN <<"log_error">> ELSE <<>>)
    \o (IF hasDev THEN <<"dispose", "wait", "reset">> ELSE <<"wait">>)
    \o (IF first THEN <<"log_waiting">> ELSE <<>>)
    \o <<DISCONNECTED, "delay", "usbinit">>

\* C14: a USBError with errno EACCES, from acquisition or from the session,
\* logs the permission message first and is otherwise handled like any
\* other USBError (device not found included): cleanup, DISCONNECTED, retry
\* delay, next acquisition attempt; it never ends the process.
C14_PermissionDeniedRetried ==
  (exc.type = "USBError" /\ ~interrupted) =>
    \E hasDev \in BOOLEAN, first \in BOOLEAN :
      LET E == HandlerSequence(exc, origin, hasDev, first) IN
        /\ IsPrefix(post, E)
        /\ (pc \in CleanupPcs /\ exc.errno = "EACCES") =>
             (Len(post) >= 1 /\ post[1] = "log_perm")
        /\ pc = "usbinit" => Len(post) = Len(E) - 1
        /\ ~recording => post = E
        /\ recording => pc \in MainPcs \ {"session", "read", "sleep"}

\* C14 witness: permission denied during acquisition, message logged, and
\* the next acquisition attempt has been made.
C14_Witness ==
  /\ exc.errno = "EACCES" /\ origin = "acquire" /\ ~interrupted /\ ~recording
  /\ post = HandlerSequence(exc, origin, FALSE, TRUE)

\* C15: SendAndCompare returns True exactly when the bytes read have the
\* length and the content of the packet written, and returns False without
\* raising for every other reply.
C15_CompareIsByteEquality ==
  /\ [](matched # "none" =>
          (matched = "True" <=>
             /\ Len(data_read) = Len(sent)
             /\ \A k \in 1..Len(sent) : data_read[k] = sent[k]))
  /\ [][(pc = "read" /\ matched' # "none") => pc' \in {"sleep", "exited"}]_vars

\* C15 witness: the reply has the packet as a strict prefix and the result
\* is False.
C15_Witness ==
  matched = "False" /\ sent = ping /\ data_read = <<30, 0, 0>> /\ pc = "sleep"

\* C16: a reply read requests at most 16 bytes, whatever the address of the
\* IN endpoint, so the reply returned is never longer than 16 bytes.
C16_ReplyAtMost16 ==
  /\ pc = "read" => ReadSize(ep_in) <= 16
  /\ Len(data_read) <= 16

\* C17: within one connection the operations are strictly ordered: a write
\* happens only right after the drain of this connection or after an
\* interval sleep (in restart mode only after the drain), a read only right
\* after a write, a sleep only right after a read.
C17_StrictOrdering ==
  /\ pc = "session" => /\ lastOp \in {"drain", "sleep"}
                       /\ restartFlag => lastOp = "drain"
  /\ pc = "read" => lastOp = "write"
  /\ pc = "sleep" => (lastOp = "read" /\ ~restartFlag)
  /\ lastOp \in {"drain", "write", "read", "sleep"} =>
       (dev # None /\ dev = ldev /\ laststatus = CONNECTED)

\* C17 witness: the second PING of the first connection has been written,
\* after drain, write, read and sleep.
C17_Witness ==
  /\ pc = "read" /\ lastOp = "write" /\ written.ping = 2 /\ attempts = 1
  /\ laststatus = CONNECTED /\ ~restartFlag

\* The run stays within the handles the model provides.
WithinBound == pc = "usbinit" => nextHandle <= MaxHandles

\* A PING has just been written on a connection in state CONNECTED.
Pinging == laststatus = CONNECTED /\ pc = "read" /\ sent = ping

\* C18: in ping mode, with no user interrupt, if from some point on the
\* device is continuously present, accessible, well-formed and echoing, then
\* the program gets to CONNECTED and keeps sending PINGs.
C18_RecoveryIsLive ==
  (~restartFlag /\ []~interrupted /\ []WithinBound /\ <>[]good)
     => []<>Pinging

====
